---- MODULE Spec2Model ----
(***************************************************************************)
(* A model of bot.py: the alerts table and its four db_* functions, the    *)
(* per-chat session kept in context.user_data, the handlers on_cb and      *)
(* on_text as far as they touch either, the periodic job alert_checker,    *)
(* and the news aggregation of fetch_rss_items / fetch_crypto_news.        *)
(*                                                                         *)
(* Strings that the code inspects (the text typed as a target, the title   *)
(* and link of a feed entry) are sequences of one-character strings, so    *)
(* that strip, replace, lower, the regular expression and the substring    *)
(* test are computed and not assumed.  Amounts of USD are counted in       *)
(* tenths of a dollar (Scale), which represents every float the model's    *)
(* inputs produce exactly.                                                 *)
(*                                                                         *)
(* The handlers run on one asyncio event loop: a handler runs without      *)
(* interruption from one await to the next.  alert_checker awaits the      *)
(* quote fetch (line 551) and send_message (line 574); on_cb and on_text   *)
(* change user_data and the table in one stretch between two awaits, so    *)
(* each is one step, taken while alert_checker is idle or awaiting.        *)
(* Handlers that change neither (start, help, PICK_, SHOWPRICE_, the news  *)
(* and list commands) are left out.  The process may stop at any statement *)
(* (Crash): the table is a file and survives, user_data and the running    *)
(* job do not.                                                             *)
(***************************************************************************)
EXTENDS Integers, Sequences, FiniteSets, Bags, TLC

VARIABLES
    alerts,      \* the alerts table: row i has id i (AUTOINCREMENT)
    user_data,   \* context.user_data of each chat
    pc,          \* where alert_checker is
    by_coin,     \* alert_checker: the groups not yet finished, the current one first
    rows,        \* alert_checker: the rows of the current group not yet evaluated
    usd,         \* alert_checker: the price fetched for the current group
    cur,         \* alert_checker: the row being notified (a snapshot tuple), or NoRow
    notifs,      \* the bag of send_message calls alert_checker has made
    tick,        \* observation of the current (or last) tick of alert_checker
    flips,       \* per row: how many times is_active went from 1 to 0
    last,        \* the last recorded call (SpecStore, SpecText)
    npc,         \* where fetch_crypto_news is
    nargs,       \* fetch_crypto_news: limit_each, final_limit
    investing,   \* fetch_crypto_news: the local of that name
    cnbc_raw,    \* fetch_crypto_news: the local of that name
    calls,       \* which feed URLs fetch_crypto_news has requested, in order
    nres         \* the outcome of fetch_crypto_news

vars == << alerts, user_data, pc, by_coin, rows, usd, cur, notifs,
           tick, flips, last, npc, nargs, investing, cnbc_raw, calls, nres >>

alertVars == << alerts, user_data, pc, by_coin, rows, usd, cur, notifs,
                tick, flips >>

newsVars == << npc, nargs, investing, cnbc_raw, calls, nres >>

----------------------------------------------------------------------------
(* Bounds of the model *)

\* rows the alerts table may hold
MaxAlerts == 2

\* entries one feed may return
MaxFeedLen == 2

\* the chats that have a session
AllChats == {1, 2}

\* the chats that talk to the bot, SpecOwners apart
Chats == {1}

\* the prices the quote source may report, in tenths of a dollar
Prices == {10, 20}

----------------------------------------------------------------------------
(* Strings *)

Digits == {"0", "1", "2", "3", "4", "5", "6", "7", "8", "9"}

DigitVal(c) ==
    CASE c = "0" -> 0 [] c = "1" -> 1 [] c = "2" -> 2 [] c = "3" -> 3
      [] c = "4" -> 4 [] c = "5" -> 5 [] c = "6" -> 6 [] c = "7" -> 7
      [] c = "8" -> 8 [] c = "9" -> 9

Whitespace == {" "}

RECURSIVE LStrip(_)
LStrip(s) ==
    IF s # << >> /\ Head(s) \in Whitespace THEN LStrip(Tail(s)) ELSE s

RECURSIVE RStrip(_)
RStrip(s) ==
    IF s # << >> /\ s[Len(s)] \in Whitespace
    THEN RStrip(SubSeq(s, 1, Len(s) - 1))
    ELSE s

\* str.strip()
Strip(s) == RStrip(LStrip(s))

\* str.replace(",", "")
RemoveCommas(s) == SelectSeq(s, LAMBDA c : c # ",")

AllDigits(s) == s # << >> /\ \A i \in 1..Len(s) : s[i] \in Digits

\* a variant: re.match, which accepts a match of a prefix
FullMatchDecimal_prefix(raw) ==
    \E j \in 1..Len(raw) : AllDigits(SubSeq(raw, 1, j))

\* re.fullmatch(r"\d+(\.\d+)?", raw)
FullMatchDecimal(raw) ==
    \/ AllDigits(raw)
    \/ \E k \in 1..Len(raw) :
          /\ raw[k] = "."
          /\ AllDigits(SubSeq(raw, 1, k - 1))
          /\ AllDigits(SubSeq(raw, k + 1, Len(raw)))

RECURSIVE IntOf(_)
IntOf(s) ==
    IF s = << >> THEN 0
    ELSE 10 * IntOf(SubSeq(s, 1, Len(s) - 1)) + DigitVal(s[Len(s)])

\* tenths of a dollar per dollar
Scale == 10

\* float(raw) for a raw that matched, in tenths; exact for at most one
\* fractional digit, which is all TextInputs holds
FloatOf(raw) ==
    IF \E k \in 1..Len(raw) : raw[k] = "."
    THEN LET k == CHOOSE j \in 1..Len(raw) : raw[j] = "."
         IN  Scale * IntOf(SubSeq(raw, 1, k - 1)) + DigitVal(raw[k + 1])
    ELSE Scale * IntOf(raw)

\* the texts a user types while a target is awaited
TextInputs ==
    { << "1" >>, << " ", "2", ",", " " >>, << "a", "b", "c" >>,
      << "2", ".", "0", "x" >> }

----------------------------------------------------------------------------
(* Config *)

\* COIN_MAP, two of its six entries
COIN_MAP == [BTC |-> "bitcoin", ETH |-> "ethereum"]

Symbols == DOMAIN COIN_MAP

Directions == {"above", "below"}

----------------------------------------------------------------------------
(* DB *)

\* a variant: a row of the same chat, coin and direction is reused
db_add_alert_upsert(tbl, chat_id, symbol, coin_id, direction, target_usd) ==
    IF \E i \in DOMAIN tbl : /\ tbl[i].chat_id = chat_id
                             /\ tbl[i].coin_id = coin_id
                             /\ tbl[i].direction = direction
    THEN [i \in DOMAIN tbl |->
            IF /\ tbl[i].chat_id = chat_id
               /\ tbl[i].coin_id = coin_id
               /\ tbl[i].direction = direction
            THEN [tbl[i] EXCEPT !.target_usd = target_usd, !.is_active = 1]
            ELSE tbl[i]]
    ELSE Append(tbl, [chat_id |-> chat_id, symbol |-> symbol, coin_id |-> coin_id,
                      direction |-> direction, target_usd |-> target_usd,
                      is_active |-> 1])

\* db_add_alert: INSERT with is_active 1; the new row's id is the next integer
db_add_alert(tbl, chat_id, symbol, coin_id, direction, target_usd) ==
    Append(tbl, [chat_id |-> chat_id, symbol |-> symbol, coin_id |-> coin_id,
                 direction |-> direction, target_usd |-> target_usd,
                 is_active |-> 1])

\* a variant: the UPDATE toggles the flag
db_deactivate_alert_toggle(tbl, alert_id) ==
    [i \in DOMAIN tbl |->
        IF i = alert_id THEN [tbl[i] EXCEPT !.is_active = 1 - @] ELSE tbl[i]]

\* db_deactivate_alert: UPDATE alerts SET is_active = 0 WHERE id = ?
db_deactivate_alert(tbl, alert_id) ==
    [i \in DOMAIN tbl |->
        IF i = alert_id THEN [tbl[i] EXCEPT !.is_active = 0] ELSE tbl[i]]

\* the tuple SELECTed for row i by db_get_active_alerts
SnapshotRow(tbl, i) ==
    [id |-> i, chat_id |-> tbl[i].chat_id, symbol |-> tbl[i].symbol,
     coin_id |-> tbl[i].coin_id, direction |-> tbl[i].direction,
     target_usd |-> tbl[i].target_usd]

\* a variant: the SELECT has no WHERE is_active = 1
db_get_active_alerts_all(tbl) ==
    [i \in 1..Len(tbl) |-> SnapshotRow(tbl, i)]

\* db_get_active_alerts: the active rows, in rowid order
db_get_active_alerts(tbl) ==
    SelectSeq([i \in 1..Len(tbl) |-> SnapshotRow(tbl, i)],
              LAMBDA r : tbl[r.id].is_active = 1)

\* flips after the table went from old to new
Flipped(f, old, new) ==
    [i \in DOMAIN new |->
        IF i \in DOMAIN old
        THEN f[i] + (IF old[i].is_active = 1 /\ new[i].is_active = 0 THEN 1 ELSE 0)
        ELSE 0]

----------------------------------------------------------------------------
(* Session and handlers *)

\* user_data after clear()
Cleared ==
    [mode |-> "none", alert_symbol |-> "none", alert_coin_id |-> "none",
     alert_direction |-> "none"]

\* on_cb, data BACK_HOME or MENU_*; price_cmd and alert_cmd do the same
OnCbMenu(chat) ==
    /\ pc \in {"idle", "fetch", "send"}
    /\ user_data' = [user_data EXCEPT ![chat] = Cleared]
    /\ UNCHANGED << alerts, pc, by_coin, rows, usd, cur, notifs, tick,
                    flips, last, newsVars >>

\* on_cb, data DIR_{sym}_{direction}
OnCbDir(chat, sym, direction) ==
    /\ pc \in {"idle", "fetch", "send"}
    /\ user_data' = [user_data EXCEPT ![chat] =
            [mode |-> "ALERT_WAIT_TARGET", alert_symbol |-> sym,
             alert_coin_id |-> COIN_MAP[sym], alert_direction |-> direction]]
    /\ UNCHANGED << alerts, pc, by_coin, rows, usd, cur, notifs, tick,
                    flips, last, newsVars >>

\* on_cb, data ALERT_OFF_{alert_id}
OnCbAlertOff(alert_id) ==
    /\ pc \in {"idle", "fetch", "send"}
    /\ alerts' = db_deactivate_alert(alerts, alert_id)
    /\ flips' = Flipped(flips, alerts, alerts')
    /\ UNCHANGED << user_data, pc, by_coin, rows, usd, cur, notifs,
                    tick, last, newsVars >>

\* a variant: user_data.clear() is missing after db_add_alert
on_text_keeps_session(chat, text) ==
    LET raw == RemoveCommas(Strip(text)) IN
    IF user_data[chat].mode = "ALERT_WAIT_TARGET" /\ FullMatchDecimal(raw)
    THEN /\ Len(alerts) < MaxAlerts
         /\ alerts' = db_add_alert(alerts, chat, user_data[chat].alert_symbol,
                                   user_data[chat].alert_coin_id,
                                   user_data[chat].alert_direction,
                                   FloatOf(raw))
         /\ flips' = Flipped(flips, alerts, alerts')
         /\ UNCHANGED user_data
    ELSE UNCHANGED << alerts, flips, user_data >>

\* on_text, lines 466-480 and 491: what it does to the table and the session
on_text(chat, text) ==
    LET raw == RemoveCommas(Strip(text)) IN
    IF user_data[chat].mode = "ALERT_WAIT_TARGET" /\ FullMatchDecimal(raw)
    THEN /\ Len(alerts) < MaxAlerts
         /\ alerts' = db_add_alert(alerts, chat, user_data[chat].alert_symbol,
                                   user_data[chat].alert_coin_id,
                                   user_data[chat].alert_direction,
                                   FloatOf(raw))
         /\ flips' = Flipped(flips, alerts, alerts')
         /\ user_data' = [user_data EXCEPT ![chat] = Cleared]
    ELSE UNCHANGED << alerts, flips, user_data >>

\* on_text
OnText(chat, text) ==
    /\ pc \in {"idle", "fetch", "send"}
    /\ on_text(chat, text)
    /\ UNCHANGED << pc, by_coin, rows, usd, cur, notifs, tick, last,
                    newsVars >>

----------------------------------------------------------------------------
(* Alert checker job *)

NoRow == [id |-> 0]

\* the tick's observation while no tick runs: only the outcome of the last
\* one is kept
NoTick ==
    [snapshot |-> {}, fetches |-> << >>, failed |-> {}, prices |-> {},
     evals |-> {}, offs |-> {}, outcome |-> "none"]

\* a variant: no grouping, one group for each row
GroupByCoin_per_row(groups, rs) ==
    groups \o [k \in 1..Len(rs) |-> [coin_id |-> rs[k].coin_id, rows |-> << rs[k] >>]]

\* by_coin.setdefault(coin_id, []).append(row): a dict keeps insertion order
RECURSIVE GroupByCoin(_, _)
GroupByCoin(groups, rs) ==
    IF rs = << >> THEN groups
    ELSE LET row == Head(rs) IN
         IF \E k \in 1..Len(groups) : groups[k].coin_id = row.coin_id
         THEN GroupByCoin(
                [k \in 1..Len(groups) |->
                    IF groups[k].coin_id = row.coin_id
                    THEN [groups[k] EXCEPT !.rows = Append(@, row)]
                    ELSE groups[k]],
                Tail(rs))
         ELSE GroupByCoin(
                Append(groups, [coin_id |-> row.coin_id, rows |-> << row >>]),
                Tail(rs))

\* a variant: strict comparisons
Triggered_strict(direction, price, target_usd) ==
    \/ direction = "above" /\ price > target_usd
    \/ direction = "below" /\ price < target_usd

\* lines 556-560: trig
Triggered(direction, price, target_usd) ==
    \/ direction = "above" /\ price >= target_usd
    \/ direction = "below" /\ price <= target_usd

\* alert_actions_kb: the callback data of the deactivate button
alert_actions_kb(alert_id) == << "ALERT_OFF", alert_id >>

\* lines 538-551: the snapshot, the grouping, and the first fetch is issued.
\* The job queue of line 597 runs one instance of the job at a time: a tick
\* starts when none is running
TickStart ==
    /\ pc = "idle"
    /\ LET snap == db_get_active_alerts(alerts)
           groups == GroupByCoin(<< >>, snap)
       IN  IF snap = << >>
           THEN /\ tick' = [NoTick EXCEPT !.outcome = "done"]
                /\ UNCHANGED << pc, by_coin >>
           ELSE /\ by_coin' = groups
                /\ pc' = "fetch"
                /\ tick' = [NoTick EXCEPT
                               !.snapshot = {snap[k].id : k \in 1..Len(snap)},
                               !.fetches = << groups[1].coin_id >>,
                               !.outcome = "running"]
    /\ UNCHANGED << alerts, user_data, rows, usd, cur, notifs, flips,
                    last, newsVars >>

\* the for loop of line 549 moves on from the current coin, t being the
\* tick's observation so far: the next coin's fetch is issued, or the job
\* returns
NextGroup(t) ==
    /\ by_coin' = Tail(by_coin)
    /\ rows' = << >>
    /\ usd' = 0
    /\ IF Tail(by_coin) = << >>
       THEN /\ pc' = "idle"
            /\ tick' = [NoTick EXCEPT !.outcome = "done"]
       ELSE /\ pc' = "fetch"
            /\ tick' = [t EXCEPT !.fetches = Append(@, by_coin[2].coin_id)]

\* line 551 returns a quote
FetchOk(price) ==
    /\ pc = "fetch"
    /\ usd' = price
    /\ rows' = by_coin[1].rows
    /\ pc' = "loop"
    /\ tick' = [tick EXCEPT !.prices = @ \cup
                    {[coin_id |-> by_coin[1].coin_id, usd |-> price]}]
    /\ UNCHANGED << alerts, user_data, by_coin, cur, notifs, flips,
                    last, newsVars >>

\* a variant: break in the place of continue
FetchFail_break ==
    /\ pc = "fetch"
    /\ pc' = "idle"
    /\ by_coin' = << >>
    /\ rows' = << >>
    /\ usd' = 0
    /\ tick' = [NoTick EXCEPT !.outcome = "done"]
    /\ UNCHANGED << alerts, user_data, cur, notifs, flips, last,
                    newsVars >>

\* line 551 raises; lines 552-553: except Exception: continue
FetchFail ==
    /\ pc = "fetch"
    /\ NextGroup([tick EXCEPT !.failed = @ \cup {by_coin[1].coin_id}])
    /\ UNCHANGED << alerts, user_data, cur, notifs, flips, last,
                    newsVars >>

\* a variant: the message is sent first and the row is deactivated after it
Evaluate_send_first ==
    /\ pc = "loop"
    /\ rows # << >>
    /\ LET row == Head(rows)
           trig == Triggered(row.direction, usd, row.target_usd)
       IN  /\ rows' = Tail(rows)
           /\ IF trig
              THEN /\ cur' = row
                   /\ pc' = "notify"
              ELSE UNCHANGED << cur, pc >>
           /\ tick' = [tick EXCEPT
                          !.evals = @ \cup {[id |-> row.id, usd |-> usd]},
                          !.offs = IF trig THEN @ \cup {row.id} ELSE @]
    /\ UNCHANGED << alerts, flips, user_data, by_coin, usd, notifs, last,
                    newsVars >>

\* a variant: is_active is read again, and a row found inactive is passed over
Evaluate_recheck ==
    /\ pc = "loop"
    /\ rows # << >>
    /\ LET row == Head(rows)
           trig == /\ Triggered(row.direction, usd, row.target_usd)
                   /\ alerts[row.id].is_active = 1
       IN  /\ rows' = Tail(rows)
           /\ IF trig
              THEN /\ alerts' = db_deactivate_alert(alerts, row.id)
                   /\ cur' = row
                   /\ pc' = "notify"
              ELSE UNCHANGED << alerts, cur, pc >>
           /\ flips' = Flipped(flips, alerts, alerts')
           /\ tick' = [tick EXCEPT
                          !.evals = @ \cup {[id |-> row.id, usd |-> usd]},
                          !.offs = IF trig THEN @ \cup {row.id} ELSE @]
    /\ UNCHANGED << user_data, by_coin, usd, notifs, last, newsVars >>

\* a variant: db_deactivate_alert is called outside the if trig
Evaluate_deactivate_all ==
    /\ pc = "loop"
    /\ rows # << >>
    /\ LET row == Head(rows)
           trig == Triggered(row.direction, usd, row.target_usd)
       IN  /\ rows' = Tail(rows)
           /\ alerts' = db_deactivate_alert(alerts, row.id)
           /\ IF trig
              THEN /\ cur' = row
                   /\ pc' = "notify"
              ELSE UNCHANGED << cur, pc >>
           /\ flips' = Flipped(flips, alerts, alerts')
           /\ tick' = [tick EXCEPT
                          !.evals = @ \cup {[id |-> row.id, usd |-> usd]},
                          !.offs = IF trig THEN @ \cup {row.id} ELSE @]
    /\ UNCHANGED << user_data, by_coin, usd, notifs, last, newsVars >>

\* lines 555-564: one row of the current coin: trig, and db_deactivate_alert
\* when it is set
Evaluate ==
    /\ pc = "loop"
    /\ rows # << >>
    /\ LET row == Head(rows)
           trig == Triggered(row.direction, usd, row.target_usd)
       IN  /\ rows' = Tail(rows)
           /\ IF trig
              THEN /\ alerts' = db_deactivate_alert(alerts, row.id)
                   /\ cur' = row
                   /\ pc' = "notify"
              ELSE UNCHANGED << alerts, cur, pc >>
           /\ flips' = Flipped(flips, alerts, alerts')
           /\ tick' = [tick EXCEPT
                          !.evals = @ \cup {[id |-> row.id, usd |-> usd]},
                          !.offs = IF trig THEN @ \cup {row.id} ELSE @]
    /\ UNCHANGED << user_data, by_coin, usd, notifs, last, newsVars >>

\* line 549: the rows of the current coin are exhausted
EndGroup ==
    /\ pc = "loop"
    /\ rows = << >>
    /\ NextGroup(tick)
    /\ UNCHANGED << alerts, user_data, cur, notifs, flips, last,
                    newsVars >>

\* a variant: the message goes to the chat of the first row of the coin
Notify_first_row ==
    /\ pc = "notify"
    /\ notifs' = notifs (+) SetToBag({
                        [chat_id |-> by_coin[1].rows[1].chat_id, id |-> cur.id,
                         usd |-> usd, target_usd |-> cur.target_usd,
                         reply_markup |-> alert_actions_kb(cur.id)]})
    /\ pc' = "send"
    /\ UNCHANGED << alerts, user_data, by_coin, rows, usd, cur, tick,
                    flips, last, newsVars >>

\* lines 565-574: the text, the keyboard, and send_message is called
Notify ==
    /\ pc = "notify"
    /\ notifs' = notifs (+) SetToBag({
                        [chat_id |-> cur.chat_id, id |-> cur.id, usd |-> usd,
                         target_usd |-> cur.target_usd,
                         reply_markup |-> alert_actions_kb(cur.id)]})
    /\ pc' = "send"
    /\ UNCHANGED << alerts, user_data, by_coin, rows, usd, cur, tick,
                    flips, last, newsVars >>

\* line 574 returns: the message and its button are in the chat
SendOk ==
    /\ pc = "send"
    /\ cur' = NoRow
    /\ pc' = "loop"
    /\ UNCHANGED << alerts, user_data, by_coin, rows, usd, notifs, tick, flips,
                    last, newsVars >>

\* line 574 raises: nothing in alert_checker catches it, the job ends
SendFail ==
    /\ pc = "send"
    /\ pc' = "idle"
    /\ by_coin' = << >>
    /\ rows' = << >>
    /\ cur' = NoRow
    /\ usd' = 0
    /\ tick' = [NoTick EXCEPT !.outcome = "raised"]
    /\ UNCHANGED << alerts, user_data, notifs, flips, last,
                    newsVars >>

\* the process stops and is started again (build_app): the table survives,
\* user_data and the running job do not
Crash ==
    /\ pc' = "idle"
    /\ by_coin' = << >>
    /\ rows' = << >>
    /\ cur' = NoRow
    /\ usd' = 0
    /\ user_data' = [c \in AllChats |-> Cleared]
    /\ tick' = IF pc = "idle" THEN tick ELSE [NoTick EXCEPT !.outcome = "killed"]
    /\ UNCHANGED << alerts, notifs, flips, last, newsVars >>

----------------------------------------------------------------------------
(* The bot: the handlers and the job on one event loop *)

NoCall == [op |-> "none"]

NewsIdle ==
    /\ npc = "idle"
    /\ nargs = [limit_each |-> 0, final_limit |-> 0]
    /\ investing = << >>
    /\ cnbc_raw = << >>
    /\ calls = << >>
    /\ nres = [status |-> "none", merged |-> << >>, uniq |-> << >>, items |-> << >>]

\* after build_app on an empty bot.db
Init ==
    /\ alerts = << >>
    /\ user_data = [c \in AllChats |-> Cleared]
    /\ pc = "idle"
    /\ by_coin = << >>
    /\ rows = << >>
    /\ usd = 0
    /\ cur = NoRow
    /\ notifs = EmptyBag
    /\ tick = NoTick
    /\ flips = << >>
    /\ last = NoCall
    /\ NewsIdle

Next ==
    \/ \E c \in Chats : OnCbMenu(c)
    \/ \E c \in Chats, sym \in Symbols, d \in Directions : OnCbDir(c, sym, d)
    \/ \E id \in 0..(MaxAlerts + 1) : OnCbAlertOff(id)
    \/ \E c \in Chats, text \in TextInputs : OnText(c, text)
    \/ TickStart
    \/ \E price \in Prices : FetchOk(price)
    \/ FetchFail
    \/ Evaluate
    \/ EndGroup
    \/ Notify
    \/ SendOk
    \/ SendFail
    \/ Crash

Spec == Init /\ [][Next]_vars

----------------------------------------------------------------------------
(* Properties of the alert lifecycle *)

\* how many send_message calls alert_checker has made for row id
NotifCount(id) ==
    LET S == {n \in BagToSet(notifs) : n.id = id}
    IN  BagCardinality([n \in S |-> notifs[n]])

EvalIds == {e.id : e \in tick.evals}

FetchedCoins == {tick.fetches[k] : k \in 1..Len(tick.fetches)}

\* the job returns from its last statement in this step
TickReturns == tick.outcome = "running" /\ tick'.outcome = "done"

\* C1: whatever the ticks, the creations and the explicit deactivations, a
\* watch id has at most one notification emitted for it, and its is_active
\* goes from 1 to 0 at most once.
C1_AtMostOneNotification ==
    \A i \in 1..Len(alerts) : NotifCount(i) <= 1 /\ flips[i] <= 1

\* a watch was notified by an earlier tick and a later tick runs without it
C1_Witness ==
    \E i \in 1..Len(alerts) :
        /\ NotifCount(i) = 1
        /\ flips[i] = 1
        /\ tick.outcome = "running"
        /\ tick.evals # {}
        /\ i \notin tick.snapshot

\* C2: a watch evaluated against a fetched price is triggered (deactivated by
\* the tick, and notified with that price) exactly when its direction is
\* above and the price is >= its target, or below and the price is <= it;
\* a price equal to the target triggers in both directions.
C2_TriggerIff ==
    \A e \in tick.evals :
        LET a == alerts[e.id]
            cond == \/ a.direction = "above" /\ e.usd >= a.target_usd
                    \/ a.direction = "below" /\ e.usd <= a.target_usd
        IN  /\ [coin_id |-> a.coin_id, usd |-> e.usd] \in tick.prices
            /\ cond <=> e.id \in tick.offs
            /\ cond => /\ a.is_active = 0
                       /\ \/ pc = "notify" /\ cur.id = e.id
                          \/ \E n \in BagToSet(notifs) :
                                n.id = e.id /\ n.usd = e.usd
            /\ ~cond => NotifCount(e.id) = 0

\* one watch above and one below were each notified at a price equal to the
\* target
C2_Witness ==
    \E n1, n2 \in BagToSet(notifs) :
        /\ n1.usd = n1.target_usd /\ alerts[n1.id].direction = "above"
        /\ n2.usd = n2.target_usd /\ alerts[n2.id].direction = "below"

\* C3: whenever a notification for a watch has been emitted the watch is
\* inactive in the table, and between the deactivation and the send_message
\* call the watch is inactive and not notified: never notified and active.
C3_DeactivateBeforeNotify ==
    /\ \A n \in BagToSet(notifs) : alerts[n.id].is_active = 0
    /\ pc \in {"notify", "send"} => alerts[cur.id].is_active = 0
    /\ pc = "notify" => NotifCount(cur.id) = 0

\* the notification of a watch has just been emitted
C3_Witness ==
    /\ pc = "send"
    /\ NotifCount(cur.id) = 1
    /\ alerts[cur.id].is_active = 0

\* C4: an inactive watch stays inactive in every step: no creation, explicit
\* deactivation or tick sets is_active of an existing row back to 1.
C4_InactiveTerminal ==
    [][\A i \in 1..Len(alerts) :
          alerts[i].is_active = 0 =>
              i \in 1..Len(alerts') /\ alerts'[i].is_active = 0]_vars

\* a watch is inactive and a watch of the same chat, coin and direction is
\* active beside it
C4_Witness ==
    \E i, j \in 1..Len(alerts) :
        /\ i < j
        /\ alerts[i].is_active = 0
        /\ alerts[j].is_active = 1
        /\ alerts[i].chat_id = alerts[j].chat_id
        /\ alerts[i].coin_id = alerts[j].coin_id
        /\ alerts[i].direction = alerts[j].direction

\* C6: in a tick, the watches of a coin whose quote fetch failed are neither
\* evaluated nor deactivated nor notified by that tick, the step in which
\* the fetch fails changes no row and sends nothing, and when the job
\* returns every coin of the snapshot has had its fetch issued and every
\* watch of a coin whose fetch did not fail has been evaluated.
C6_FetchFailureIsolated ==
    /\ [](\A c \in tick.failed : \A i \in tick.snapshot :
             alerts[i].coin_id = c => i \notin EvalIds /\ i \notin tick.offs)
    /\ [][pc = "fetch" /\ pc' # "loop" /\ (by_coin' # by_coin) /\ tick'.outcome # "killed"
             => alerts' = alerts /\ notifs' = notifs]_vars
    /\ [][TickReturns =>
            LET failed == tick.failed \cup
                            (IF pc = "fetch" THEN {by_coin[1].coin_id} ELSE {})
            IN  \A i \in tick.snapshot :
                    /\ alerts[i].coin_id \in FetchedCoins
                    /\ alerts[i].coin_id \notin failed => i \in EvalIds]_vars

\* the first coin's fetch failed and a watch of another coin was evaluated
\* in the same tick
C6_Witness ==
    /\ tick.outcome = "running"
    /\ tick.fetches # << >>
    /\ tick.fetches[1] \in tick.failed
    /\ \E e \in tick.evals : alerts[e.id].coin_id \notin tick.failed

\* C7: in a tick no coin's quote is fetched twice, every fetch is for a coin
\* of a watch of the snapshot, every watch is evaluated against the one
\* price fetched for its coin, and when the job returns each distinct coin of
\* the snapshot has been fetched exactly once.
C7_OneFetchPerCoin ==
    /\ [](/\ \A j, k \in 1..Len(tick.fetches) :
                j # k => tick.fetches[j] # tick.fetches[k]
          /\ \A c \in FetchedCoins :
                \E i \in tick.snapshot : alerts[i].coin_id = c
          /\ \A p, q \in tick.prices : p.coin_id = q.coin_id => p = q
          /\ \A e \in tick.evals :
                [coin_id |-> alerts[e.id].coin_id, usd |-> e.usd] \in tick.prices)
    /\ [][TickReturns =>
            /\ FetchedCoins = {alerts[i].coin_id : i \in tick.snapshot}
            /\ Len(tick.fetches) = Cardinality(FetchedCoins)]_vars

\* two watches of one coin were evaluated in a tick that has issued one fetch
C7_Witness ==
    /\ Len(tick.fetches) = 1
    /\ \E e1, e2 \in tick.evals :
          /\ e1.id # e2.id
          /\ alerts[e1.id].coin_id = alerts[e2.id].coin_id
          /\ alerts[e1.id].target_usd # alerts[e2.id].target_usd
          /\ e1.usd = e2.usd

\* the condition of a row is met by price
Met(row, price) ==
    \/ row.direction = "above" /\ price >= row.target_usd
    \/ row.direction = "below" /\ price <= row.target_usd

\* C13: the step that evaluates a watch whose condition the fetched price
\* does not meet changes no row and sends nothing, and the tick has neither
\* deactivated nor notified such a watch; the snapshot of a starting tick holds
\* every active watch, and when a coin's quote arrives every watch of the
\* snapshot on that coin is queued for evaluation.
C13_UntriggeredStaysActive ==
    /\ [](\A e \in tick.evals :
             ~Met(alerts[e.id], e.usd) =>
                 /\ e.id \notin tick.offs
                 /\ NotifCount(e.id) = 0
                 /\ flips[e.id] = 0 => alerts[e.id].is_active = 1)
    /\ [][pc = "loop" /\ rows # << >> /\ tick'.outcome = "running"
             /\ tick'.evals # tick.evals /\ ~Met(Head(rows), usd)
             => alerts' = alerts /\ notifs' = notifs /\ pc' = "loop"]_vars
    /\ [][tick.outcome # "running" /\ tick'.outcome = "running"
             => tick'.snapshot =
                    {i \in 1..Len(alerts) : alerts[i].is_active = 1}]_vars
    /\ [][pc = "fetch" /\ pc' = "loop"
             => {rows'[k].id : k \in 1..Len(rows')} =
                    {i \in tick.snapshot :
                        alerts[i].coin_id = by_coin[1].coin_id}]_vars

\* a watch above its target is being notified at a price equal to the target
\* while a later watch of the same coin was notified by an earlier tick at a
\* price under that target: that tick evaluated the first watch too, and
\* left it active
C13_Witness ==
    /\ pc = "send"
    /\ cur.direction = "above"
    /\ usd = cur.target_usd
    /\ NotifCount(cur.id) = 1
    /\ \E n \in BagToSet(notifs) :
          /\ n.id > cur.id
          /\ alerts[n.id].coin_id = cur.coin_id
          /\ n.usd < cur.target_usd

\* C17: no exception of send_message leaves alert_checker, and the step in
\* which a send_message call ends, delivered or not, goes back to the loop
\* with the rows and the coins still to be evaluated as they were.
C17_SendFailureContained ==
    /\ [](tick.outcome # "raised")
    /\ [][pc = "send" /\ pc' # "send" /\ tick'.outcome # "killed"
          => pc' = "loop" /\ rows' = rows /\ by_coin' = by_coin]_vars

----------------------------------------------------------------------------
(* The bot with the presses of the deactivate button recorded *)

\* the texts typed in this specification: "1" and "abc"
RaceTexts == { << "1" >>, << "a", "b", "c" >> }

\* on_cb, data ALERT_OFF_{alert_id}; raced records whether the press found
\* the row active, in the snapshot of the running tick and not yet evaluated
AlertOffPressed(alert_id) ==
    /\ pc \in {"idle", "fetch", "send"}
    /\ alerts' = db_deactivate_alert(alerts, alert_id)
    /\ flips' = Flipped(flips, alerts, alerts')
    /\ last' = [op |-> "off", id |-> alert_id,
                raced |-> /\ alert_id \in tick.snapshot
                          /\ alert_id \notin EvalIds
                          /\ alerts[alert_id].is_active = 1]
    /\ UNCHANGED << user_data, pc, by_coin, rows, usd, cur, notifs, tick,
                    newsVars >>

NextRace ==
    \/ \E c \in Chats : OnCbMenu(c)
    \/ \E c \in Chats, sym \in Symbols, d \in Directions : OnCbDir(c, sym, d)
    \/ \E id \in 1..MaxAlerts : AlertOffPressed(id)
    \/ \E c \in Chats, text \in RaceTexts : OnText(c, text)
    \/ TickStart
    \/ \E price \in Prices : FetchOk(price)
    \/ FetchFail
    \/ Evaluate
    \/ EndGroup
    \/ Notify
    \/ SendOk
    \/ SendFail
    \/ Crash

SpecRace == Init /\ [][NextRace]_vars

\* C15: a watch of the running tick's snapshot that the user deactivated after
\* the snapshot and before its evaluation, and whose condition the fetched
\* price meets, is inactive and either about to be notified or notified
\* exactly once; the step that evaluates a row the table already has inactive
\* changes no row, and the send_message call that follows makes the one
\* notification of that watch.
C15_RaceStillNotifies ==
    /\ [](\A e \in tick.evals :
             /\ last.op = "off" /\ last.raced /\ last.id = e.id
             /\ Met(alerts[e.id], e.usd)
             => /\ alerts[e.id].is_active = 0
                /\ flips[e.id] = 1
                /\ \/ pc = "notify" /\ cur.id = e.id /\ NotifCount(e.id) = 0
                   \/ NotifCount(e.id) = 1)
    /\ [][/\ pc = "loop" /\ rows # << >> /\ tick'.outcome = "running"
          /\ tick'.evals # tick.evals
          /\ alerts[Head(rows).id].is_active = 0
          => alerts' = alerts /\ flips' = flips]_vars
    /\ [][pc = "notify" /\ pc' = "send"
          => /\ BagCardinality(notifs') = BagCardinality(notifs) + 1
             /\ NotifCount(cur.id)' = 1]_vars

\* the watch being notified was deactivated by the user between the snapshot
\* and its evaluation
C15_Witness ==
    /\ pc = "send"
    /\ last.op = "off"
    /\ last.raced
    /\ last.id = cur.id
    /\ NotifCount(cur.id) = 1
    /\ flips[cur.id] = 1
    /\ alerts[cur.id].is_active = 0

----------------------------------------------------------------------------
(* The bot with two chats, each with its session and its watches *)

\* the texts typed in this specification: " 2, " and "abc"
OwnerTexts == { << " ", "2", ",", " " >>, << "a", "b", "c" >> }

\* the directions chosen in this specification
OwnerDirections == {"above"}

NextOwners ==
    \/ \E c \in AllChats : OnCbMenu(c)
    \/ \E c \in AllChats, sym \in Symbols, d \in OwnerDirections :
          OnCbDir(c, sym, d)
    \/ \E id \in 1..MaxAlerts : OnCbAlertOff(id)
    \/ \E c \in AllChats, text \in OwnerTexts : OnText(c, text)
    \/ TickStart
    \/ \E price \in Prices : FetchOk(price)
    \/ FetchFail
    \/ Evaluate
    \/ EndGroup
    \/ Notify
    \/ SendOk
    \/ SendFail
    \/ Crash

SpecOwners == Init /\ [][NextOwners]_vars

\* C20: every notification is addressed to the chat of the watch it names,
\* carries that watch's target, and has for its button the callback data
\* ALERT_OFF of that watch's id; and the send_message call adds one
\* notification, for a watch of the running tick's snapshot, with the price
\* that tick fetched for the coin of the watch.
C20_NotificationContent ==
    /\ [](\A n \in BagToSet(notifs) :
             /\ n.id \in 1..Len(alerts)
             /\ n.chat_id = alerts[n.id].chat_id
             /\ n.target_usd = alerts[n.id].target_usd
             /\ n.reply_markup = << "ALERT_OFF", n.id >>)
    /\ [][pc = "notify" /\ pc' = "send" =>
            \E n \in BagToSet(notifs') :
                /\ notifs' = notifs (+) SetToBag({n})
                /\ n.id = cur.id
                /\ n.id \in tick.snapshot
                /\ [coin_id |-> alerts[n.id].coin_id, usd |-> n.usd]
                       \in tick.prices]_vars

\* in one tick a watch of one chat was notified, and after it a watch of the
\* other chat on the same coin
C20_Witness ==
    /\ pc = "send"
    /\ \E n, m \in BagToSet(notifs) :
          /\ m.id = cur.id
          /\ n.id \in tick.offs
          /\ n.id < m.id
          /\ n.chat_id # m.chat_id
          /\ alerts[n.id].coin_id = alerts[m.id].coin_id

----------------------------------------------------------------------------
(* The store on its own: db_add_alert and db_deactivate_alert called with any
   arguments, in any order, as on_text, on_cb and alert_checker may call them *)

\* the targets a caller passes, in tenths of a dollar
StoreTargets == {10, 20}

\* db_add_alert is called
StoreAdd(chat, sym, d, target) ==
    /\ Len(alerts) < MaxAlerts
    /\ alerts' = db_add_alert(alerts, chat, sym, COIN_MAP[sym], d, target)
    /\ last' = [op |-> "add", id |-> Len(alerts) + 1, before |-> alerts,
                twice |-> FALSE]
    /\ UNCHANGED << user_data, pc, by_coin, rows, usd, cur, notifs, tick, flips,
                    newsVars >>

\* db_deactivate_alert is called and returns
StoreDeactivate(id) ==
    /\ alerts' = db_deactivate_alert(alerts, id)
    /\ last' = [op |-> "deactivate", id |-> id, before |-> alerts,
                twice |-> (last.op = "deactivate" /\ last.id = id)]
    /\ UNCHANGED << user_data, pc, by_coin, rows, usd, cur, notifs, tick, flips,
                    newsVars >>

NextStore ==
    \/ \E c \in Chats, sym \in Symbols, d \in Directions, t \in StoreTargets :
          StoreAdd(c, sym, d, t)
    \/ \E id \in 0..(MaxAlerts + 1) : StoreDeactivate(id)

SpecStore == Init /\ [][NextStore]_vars

\* C5: db_deactivate_alert(id) returns for every id; a second call in a row
\* leaves the table as the first call left it; on an id that is inactive or
\* absent it changes nothing; and it changes no row but row id, whose
\* is_active it sets to 0.
C5_DeactivateIdempotent ==
    last.op = "deactivate" =>
        /\ Len(alerts) = Len(last.before)
        /\ \A j \in 1..Len(alerts) :
              IF j = last.id
              THEN alerts[j] = [last.before[j] EXCEPT !.is_active = 0]
              ELSE alerts[j] = last.before[j]
        /\ (\/ last.id \notin 1..Len(last.before)
            \/ last.before[last.id].is_active = 0) => alerts = last.before
        /\ last.twice => alerts = last.before

\* the same existing id was deactivated twice in a row beside an active row
C5_Witness ==
    /\ last.op = "deactivate"
    /\ last.twice
    /\ last.id \in 1..Len(alerts)
    /\ \E j \in 1..Len(alerts) : j # last.id /\ alerts[j].is_active = 1

----------------------------------------------------------------------------
(* The text handler on its own: a chat chooses a direction and types texts *)

\* "42000"
Text42000 == << "4", "2", "0", "0", "0" >>

\* "abc"
TextAbc == << "a", "b", "c" >>

\* "42,000.00xyz"
Text42000xyz ==
    << "4", "2", ",", "0", "0", "0", ".", "0", "0", "x", "y", "z" >>

\* the texts a user types in this specification: the three above, " 1.5 ",
\* "4,2", "0", ".5", "", ", 1" and "-1"
TargetTexts ==
    { Text42000, TextAbc, Text42000xyz,
      << " ", "1", ".", "5", " " >>, << "4", ",", "2" >>, << "0" >>,
      << ".", "5" >>, << >>, << ",", " ", "1" >>, << "-", "1" >> }

\* on_text is called with text, and what it was called with is recorded
TextTyped(chat, text) ==
    /\ on_text(chat, text)
    /\ last' = [op |-> "text", chat |-> chat, text |-> text,
                mode |-> user_data[chat].mode, before |-> alerts]
    /\ UNCHANGED << pc, by_coin, rows, usd, cur, notifs, tick, newsVars >>

NextText ==
    \/ \E c \in Chats : OnCbMenu(c)
    \/ \E c \in Chats, sym \in Symbols, d \in Directions : OnCbDir(c, sym, d)
    \/ \E c \in Chats, text \in TargetTexts : TextTyped(c, text)

SpecText == Init /\ [][NextText]_vars

\* s is a decimal number: digits, with at most one point, which has a digit
\* on each side
IsDecimalNumber(s) ==
    /\ s # << >>
    /\ \A k \in 1..Len(s) : s[k] \in Digits \cup {"."}
    /\ Cardinality({k \in 1..Len(s) : s[k] = "."}) <= 1
    /\ s[1] # "."
    /\ s[Len(s)] # "."

\* the text of the last call, trimmed, and then without its commas
LastCleaned == SelectSeq(Strip(last.text), LAMBDA c : c # ",")

\* C11: a text typed in mode ALERT_WAIT_TARGET adds a row exactly when, trimmed
\* and without commas, it is a decimal number; "abc" and "42,000.00xyz" leave
\* the table as it was, and "42000" adds one active row of target 42000.
C11_TargetValidation ==
    last.op = "text" /\ last.mode = "ALERT_WAIT_TARGET" =>
        /\ IF IsDecimalNumber(LastCleaned)
           THEN /\ Len(alerts) = Len(last.before) + 1
                /\ SubSeq(alerts, 1, Len(last.before)) = last.before
                /\ alerts[Len(alerts)].is_active = 1
           ELSE alerts = last.before
        /\ last.text \in {TextAbc, Text42000xyz} => alerts = last.before
        /\ last.text = Text42000 =>
              /\ Len(alerts) = Len(last.before) + 1
              /\ alerts[Len(alerts)].target_usd = 42000 * Scale

\* "42000" was typed after a direction was chosen, and after it "42,000.00xyz"
\* in the same mode was turned down
C11_Witness ==
    /\ last.op = "text"
    /\ last.mode = "ALERT_WAIT_TARGET"
    /\ last.text = Text42000xyz
    /\ alerts = last.before
    /\ \E i \in 1..Len(alerts) : alerts[i].target_usd = 42000 * Scale

\* C12: every row of the table has a target_usd greater than 0.
C12_PositiveTarget ==
    \A i \in 1..Len(alerts) : alerts[i].target_usd > 0

----------------------------------------------------------------------------
(* The sessions of two chats: each chooses directions and types texts *)

\* the texts typed in this specification: "1" and "abc"
SessionTexts == { << "1" >>, TextAbc }

NextSession ==
    \/ \E c \in AllChats : OnCbMenu(c)
    \/ \E c \in AllChats, sym \in Symbols, d \in Directions :
          OnCbDir(c, sym, d)
    \/ \E c \in AllChats, text \in SessionTexts : TextTyped(c, text)

SpecSession == Init /\ [][NextSession]_vars

\* C21: a step of on_text that adds a row is taken by a chat whose session is
\* in mode ALERT_WAIT_TARGET; it adds one active row with that chat and the
\* symbol, coin id and direction of its session, clears that session and
\* leaves the other chat's; a step of on_text that adds no row leaves every
\* session as it was, so a session that waited still waits; a text typed in a
\* cleared session adds nothing; and a session enters ALERT_WAIT_TARGET only
\* in a step that is no text, changes no row, and sets a symbol of COIN_MAP
\* with its coin id and a direction.
C21_SessionGating ==
    /\ [][last' # last =>
            LET c == last'.chat
                session == user_data[c]
            IN  /\ last'.op = "text"
                /\ last'.mode = session.mode
                /\ last'.before = alerts
                /\ session.mode # "ALERT_WAIT_TARGET" => alerts' = alerts
                /\ IF alerts' # alerts
                   THEN /\ session.mode = "ALERT_WAIT_TARGET"
                        /\ Len(alerts') = Len(alerts) + 1
                        /\ SubSeq(alerts', 1, Len(alerts)) = alerts
                        /\ alerts'[Len(alerts')].chat_id = c
                        /\ alerts'[Len(alerts')].symbol = session.alert_symbol
                        /\ alerts'[Len(alerts')].coin_id = session.alert_coin_id
                        /\ alerts'[Len(alerts')].direction =
                              session.alert_direction
                        /\ alerts'[Len(alerts')].is_active = 1
                        /\ user_data'[c].mode = "none"
                        /\ \A o \in AllChats \ {c} :
                              user_data'[o] = user_data[o]
                   ELSE user_data' = user_data]_vars
    /\ [][\A c \in AllChats :
            /\ user_data'[c].mode = "ALERT_WAIT_TARGET"
            /\ user_data'[c] # user_data[c]
            => /\ last' = last
               /\ alerts' = alerts
               /\ user_data'[c].alert_symbol \in DOMAIN COIN_MAP
               /\ user_data'[c].alert_coin_id =
                     COIN_MAP[user_data'[c].alert_symbol]
               /\ user_data'[c].alert_direction \in {"above", "below"}]_vars

\* a chat that has a watch typed "1" in a cleared session and no row was
\* added, while the other chat's session waits for a target
C21_Witness ==
    /\ last.op = "text"
    /\ last.text = << "1" >>
    /\ last.mode = "none"
    /\ alerts = last.before
    /\ user_data[last.chat].mode = "none"
    /\ \E i \in 1..Len(alerts) : alerts[i].chat_id = last.chat
    /\ \E o \in AllChats \ {last.chat} :
          user_data[o].mode = "ALERT_WAIT_TARGET"

----------------------------------------------------------------------------
(* News (RSS) *)

UpperCase == << "A", "B", "C", "T", "X" >>
LowerCase == << "a", "b", "c", "t", "x" >>

\* str.lower() on one character
LowerChar(c) ==
    IF \E k \in 1..Len(UpperCase) : UpperCase[k] = c
    THEN LowerCase[CHOOSE k \in 1..Len(UpperCase) : UpperCase[k] = c]
    ELSE c

\* str.lower()
Lower(s) == [k \in 1..Len(s) |-> LowerChar(s[k])]

\* k in t, for strings
Contains(t, k) ==
    \E i \in 0..(Len(t) - Len(k)) : SubSeq(t, i + 1, i + Len(k)) = k

\* CRYPTO_KEYWORDS, two of its entries
CRYPTO_KEYWORDS == { << "b", "t", "c" >>, << "e", "t", "h" >> }

\* a variant: the title is not put in lower case
contains_crypto_keyword_cased(title) ==
    \E k \in CRYPTO_KEYWORDS : Contains(title, k)

\* contains_crypto_keyword
contains_crypto_keyword(title) ==
    \E k \in CRYPTO_KEYWORDS : Contains(Lower(title), k)

\* None
None == << >>

\* time.mktime of a struct_time, which is the tuple of the instant it denotes
mktime(parsed) == parsed[1]

\* the entries a parsed feed may hold: title, link, published_parsed and
\* updated_parsed
FeedEntries ==
    { [title |-> << "B", "t", "c" >>, link |-> << "a" >>,
       published_parsed |-> << 2 >>, updated_parsed |-> << 1 >>],
      [title |-> << "x" >>, link |-> << "a" >>,
       published_parsed |-> None, updated_parsed |-> << 1 >>],
      [title |-> << "b", "t", "c" >>, link |-> << >>,
       published_parsed |-> None, updated_parsed |-> None],
      [title |-> << "A" >>, link |-> << >>,
       published_parsed |-> << 2 >>, updated_parsed |-> None],
      [title |-> << " " >>, link |-> << " " >>,
       published_parsed |-> << 1 >>, updated_parsed |-> None],
      [title |-> << "X", " " >>, link |-> << " " >>,
       published_parsed |-> None, updated_parsed |-> None] }

\* what feed.entries may be
FeedLists == UNION { [1..k -> FeedEntries] : k \in 0..MaxFeedLen }

\* the arguments of fetch_crypto_news
NewsArgs ==
    { [limit_each |-> MaxFeedLen, final_limit |-> 2],
      [limit_each |-> 1, final_limit |-> 3] }

\* lines 210-211: published_ts; time.mktime of the instant, or 0
PublishedTs(e) ==
    LET parsed == IF e.published_parsed # None THEN e.published_parsed
                  ELSE e.updated_parsed
    IN  IF parsed # None THEN mktime(parsed) ELSE 0

\* fetch_rss_items once the text has arrived: feed.entries[:limit] as items.
\* dated is not in the code: it records whether the entry had a date
fetch_rss_items(entries, limit) ==
    [k \in 1..(IF Len(entries) < limit THEN Len(entries) ELSE limit) |->
        [title |-> entries[k].title, link |-> entries[k].link,
         published_ts |-> PublishedTs(entries[k]),
         dated |-> (entries[k].published_parsed # None
                    \/ entries[k].updated_parsed # None)]]

\* x["source"] = label, for every x
Tagged(items, label) ==
    [k \in 1..Len(items) |->
        [title |-> items[k].title, link |-> items[k].link,
         published_ts |-> items[k].published_ts, dated |-> items[k].dated,
         source |-> label]]

\* insertion of x into a list sorted by published_ts, largest first, behind
\* the items of the same published_ts
RECURSIVE InsertDesc(_, _)
InsertDesc(x, sorted) ==
    IF sorted = << >> THEN << x >>
    ELSE IF Head(sorted).published_ts >= x.published_ts
         THEN << Head(sorted) >> \o InsertDesc(x, Tail(sorted))
         ELSE << x >> \o sorted

\* a variant: reverse=True is missing
RECURSIVE SortedByTs_ascending(_)
SortedByTs_ascending(items) ==
    IF items = << >> THEN << >>
    ELSE LET rest == SortedByTs_ascending(SubSeq(items, 1, Len(items) - 1))
             x == items[Len(items)]
             before == SelectSeq(rest, LAMBDA y : y.published_ts <= x.published_ts)
             after == SelectSeq(rest, LAMBDA y : y.published_ts > x.published_ts)
         IN  before \o << x >> \o after

\* a variant: the list is not sorted before the duplicates are dropped
SortedByTs_unsorted(items) == items

\* sorted(merged, key=published_ts, reverse=True): stable
RECURSIVE SortedByTs(_)
SortedByTs(items) ==
    IF items = << >> THEN << >>
    ELSE InsertDesc(items[Len(items)],
                    SortedByTs(SubSeq(items, 1, Len(items) - 1)))

\* line 243: key
DedupKey(x) ==
    IF Strip(x.link) # << >> THEN Strip(x.link) ELSE Lower(Strip(x.title))

\* a variant: the test not key is missing
RECURSIVE Dedup_keeps_blank(_, _)
Dedup_keeps_blank(items, seen) ==
    IF items = << >> THEN << >>
    ELSE LET x == Head(items)
             key == DedupKey(x)
         IN  IF key \in seen
             THEN Dedup_keeps_blank(Tail(items), seen)
             ELSE << x >> \o Dedup_keeps_blank(Tail(items), seen \cup {key})

\* lines 240-247: the first item of each key is kept, an item with no key is
\* dropped
RECURSIVE Dedup(_, _)
Dedup(items, seen) ==
    IF items = << >> THEN << >>
    ELSE LET x == Head(items)
             key == DedupKey(x)
         IN  IF key = << >> \/ key \in seen
             THEN Dedup(Tail(items), seen)
             ELSE << x >> \o Dedup(Tail(items), seen \cup {key})

\* lines 231-249, which await nothing: the filter, the merge, the sort, the
\* duplicates, the cut to final_limit
FinishNews(raw) ==
    LET cnbc == Tagged(SelectSeq(raw, LAMBDA x : contains_crypto_keyword(x.title)),
                       "CNBC")
        merged == investing \o cnbc
        uniq == Dedup(SortedByTs(merged), {})
    IN  [status |-> "ok", merged |-> merged, uniq |-> uniq,
         items |-> SubSeq(uniq, 1, IF Len(uniq) < nargs.final_limit
                                   THEN Len(uniq) ELSE nargs.final_limit)]

\* what an escaping exception leaves of the call
Raised == [status |-> "raised", merged |-> << >>, uniq |-> << >>, items |-> << >>]

\* the URL of the last call has answered with outcome
Answered(outcome) ==
    [calls EXCEPT ![Len(calls)] = [@ EXCEPT !.outcome = outcome]]

\* the URL of the last call has returned items
Returned(items) ==
    [calls EXCEPT ![Len(calls)] = [@ EXCEPT !.outcome = "ok", !.items = items]]

Request(url) == [url |-> url, outcome |-> "pending", items |-> << >>]

\* fetch_crypto_news is called: line 221 requests the Investing feed
NewsStart(args) ==
    /\ npc = "idle"
    /\ nargs' = args
    /\ calls' = << Request("INVESTING_CRYPTO_RSS") >>
    /\ npc' = "investing"
    /\ UNCHANGED << alertVars, last, investing, cnbc_raw, nres >>

\* line 221 returns, lines 222-223, line 227 requests CNBC's primary feed
InvestingOk(entries) ==
    /\ npc = "investing"
    /\ investing' = Tagged(fetch_rss_items(entries, nargs.limit_each),
                           "Investing.com")
    /\ calls' = Append(Returned(fetch_rss_items(entries, nargs.limit_each)),
                       Request("CNBC_RSS_PRIMARY"))
    /\ npc' = "cnbc_primary"
    /\ UNCHANGED << alertVars, last, nargs, cnbc_raw, nres >>

\* line 221 raises: the exception leaves fetch_crypto_news
InvestingFail ==
    /\ npc = "investing"
    /\ calls' = Answered("raised")
    /\ nres' = Raised
    /\ npc' = "done"
    /\ UNCHANGED << alertVars, last, nargs, investing, cnbc_raw >>

\* line 227 returns, lines 231-249
CnbcPrimaryOk(entries) ==
    /\ npc = "cnbc_primary"
    /\ cnbc_raw' = fetch_rss_items(entries, nargs.limit_each)
    /\ calls' = Returned(cnbc_raw')
    /\ nres' = FinishNews(cnbc_raw')
    /\ npc' = "done"
    /\ UNCHANGED << alertVars, last, nargs, investing >>

\* a variant: except Exception gives up on CNBC with no items
CnbcPrimaryFail_give_up ==
    /\ npc = "cnbc_primary"
    /\ cnbc_raw' = << >>
    /\ calls' = Answered("raised")
    /\ nres' = FinishNews(cnbc_raw')
    /\ npc' = "done"
    /\ UNCHANGED << alertVars, last, nargs, investing >>

\* line 227 raises, lines 228-229: the alternate feed is requested
CnbcPrimaryFail ==
    /\ npc = "cnbc_primary"
    /\ calls' = Append(Answered("raised"), Request("CNBC_RSS_ALT"))
    /\ npc' = "cnbc_alt"
    /\ UNCHANGED << alertVars, last, nargs, investing, cnbc_raw, nres >>

\* line 229 returns, lines 231-249
CnbcAltOk(entries) ==
    /\ npc = "cnbc_alt"
    /\ cnbc_raw' = fetch_rss_items(entries, nargs.limit_each)
    /\ calls' = Returned(cnbc_raw')
    /\ nres' = FinishNews(cnbc_raw')
    /\ npc' = "done"
    /\ UNCHANGED << alertVars, last, nargs, investing >>

\* line 229 raises inside the except block: the exception leaves
\* fetch_crypto_news
CnbcAltFail ==
    /\ npc = "cnbc_alt"
    /\ calls' = Answered("raised")
    /\ nres' = Raised
    /\ npc' = "done"
    /\ UNCHANGED << alertVars, last, nargs, investing, cnbc_raw >>

NextNews ==
    \/ \E args \in NewsArgs : NewsStart(args)
    \/ \E entries \in FeedLists : InvestingOk(entries)
    \/ InvestingFail
    \/ \E entries \in FeedLists : CnbcPrimaryOk(entries)
    \/ CnbcPrimaryFail
    \/ \E entries \in FeedLists : CnbcAltOk(entries)
    \/ CnbcAltFail

SpecNews == Init /\ [][NextNews]_vars

----------------------------------------------------------------------------
(* Properties of the news aggregation *)

Positions(items) == 1..Len(items)

\* the identity of a news item: its trimmed link, or with no link its trimmed
\* title in lower case
IdentityOf(x) ==
    IF Strip(x.link) = << >> THEN Lower(Strip(x.title)) ELSE Strip(x.link)

\* the call has contacted all three URLs, and both of CNBC's have failed
BothCnbcFailed ==
    /\ npc = "done"
    /\ Len(calls) = 3
    /\ calls[1].outcome = "ok"
    /\ calls[2].outcome = "raised"
    /\ calls[3].outcome = "raised"

\* C8: when both CNBC endpoints fail and the Investing feed has answered,
\* fetch_crypto_news does not fail and returns the Investing items alone.
C8_SecondaryOptional ==
    BothCnbcFailed /\ investing # << >> =>
        /\ nres.status = "ok"
        /\ nres.merged = investing
        /\ \A k \in Positions(nres.items) : nres.items[k].source = "Investing.com"

\* C9 as stated: for every link that two or more merged entries share,
\* exactly one entry with that link is in the output before the cut, and its
\* published_ts is >= that of every merged entry with that link.
C9_SameLinkExactlyOne ==
    nres.status = "ok" =>
        \A j \in Positions(nres.merged) :
            LET l == nres.merged[j].link
                same == {k \in Positions(nres.merged) : nres.merged[k].link = l}
                kept == {k \in Positions(nres.uniq) : nres.uniq[k].link = l}
            IN  Cardinality(same) >= 2 =>
                    /\ Cardinality(kept) = 1
                    /\ \A u \in kept : \A k \in same :
                          nres.uniq[u].published_ts >= nres.merged[k].published_ts

\* C9 as amended: for every link, not blank, that two or more merged entries
\* share, exactly one entry with that link's identity (the trimmed link) is in
\* the output before the cut, its published_ts is >= that of every merged
\* entry with that identity, those with that link among them, and at most one
\* entry with that link is in the output.
C9_SameIdentityExactlyOne ==
    nres.status = "ok" =>
        \A j \in Positions(nres.merged) :
            LET l == nres.merged[j].link
                same == {k \in Positions(nres.merged) : nres.merged[k].link = l}
                alike == {k \in Positions(nres.merged) :
                             IdentityOf(nres.merged[k]) = Strip(l)}
                kept == {k \in Positions(nres.uniq) :
                             IdentityOf(nres.uniq[k]) = Strip(l)}
            IN  Cardinality(same) >= 2 /\ Strip(l) # << >> =>
                    /\ Cardinality(kept) = 1
                    /\ \A u \in kept : \A k \in alike :
                          nres.uniq[u].published_ts >= nres.merged[k].published_ts
                    /\ Cardinality({k \in Positions(nres.uniq) :
                                       nres.uniq[k].link = l}) <= 1

\* two merged entries have the same link, not blank, other titles and other
\* times, and the later one is in the output
C9_Witness ==
    /\ nres.status = "ok"
    /\ \E j, k \in Positions(nres.merged) :
          /\ nres.merged[j].link = nres.merged[k].link
          /\ Strip(nres.merged[j].link) # << >>
          /\ nres.merged[j].title # nres.merged[k].title
          /\ nres.merged[j].published_ts < nres.merged[k].published_ts
          /\ j < k
          /\ \E u \in Positions(nres.uniq) : nres.uniq[u] = nres.merged[k]

\* C10: fetch_crypto_news returns at most final_limit items, in an order in
\* which published_ts never increases, an item without a date having
\* published_ts 0.
C10_LimitedAndSorted ==
    nres.status = "ok" =>
        /\ Len(nres.items) <= nargs.final_limit
        /\ \A j, k \in Positions(nres.items) :
              j < k => nres.items[j].published_ts >= nres.items[k].published_ts
        /\ \A k \in Positions(nres.items) :
              ~nres.items[k].dated => nres.items[k].published_ts = 0

\* the output was cut to final_limit, and holds an item without a date behind
\* a dated one
C10_Witness ==
    /\ nres.status = "ok"
    /\ Len(nres.uniq) > nargs.final_limit
    /\ Len(nres.items) = nargs.final_limit
    /\ \E j, k \in Positions(nres.items) :
          j < k /\ nres.items[j].dated /\ ~nres.items[k].dated

\* title has a keyword in it, whatever the case of its letters
HasKeyword(title) ==
    \E kw \in CRYPTO_KEYWORDS : \E i \in 0..(Len(title) - Len(kw)) :
        \A j \in 1..Len(kw) : LowerChar(title[i + j]) = kw[j]

\* item x as fetched, under label
Labelled(x, label) ==
    [title |-> x.title, link |-> x.link, published_ts |-> x.published_ts,
     dated |-> x.dated, source |-> label]

\* C18: the URLs are requested in the order Investing, CNBC primary, CNBC
\* alternate; the primary only after Investing has answered, the alternate
\* only after the primary has failed, and always then; when Investing fails
\* nothing of CNBC is requested and the call fails; and the CNBC items of a
\* call that ends well are those of the CNBC answer that came last.
C18_CnbcFallback ==
    /\ Len(calls) <= 3
    /\ Len(calls) >= 1 => calls[1].url = "INVESTING_CRYPTO_RSS"
    /\ Len(calls) >= 2 =>
          calls[1].outcome = "ok" /\ calls[2].url = "CNBC_RSS_PRIMARY"
    /\ Len(calls) >= 3 =>
          calls[2].outcome = "raised" /\ calls[3].url = "CNBC_RSS_ALT"
    /\ Len(calls) >= 1 /\ calls[1].outcome = "raised" =>
          Len(calls) = 1 /\ nres.status = "raised"
    /\ npc = "done" /\ Len(calls) >= 2 /\ calls[2].outcome = "raised" =>
          Len(calls) = 3
    /\ Len(calls) = 3 /\ calls[3].outcome = "ok" =>
          /\ nres.status = "ok"
          /\ cnbc_raw = calls[3].items
          /\ Len(nres.merged) =
                Len(investing) + Len(SelectSeq(calls[3].items,
                                              LAMBDA x : HasKeyword(x.title)))
          /\ \A k \in Positions(nres.merged) :
                k > Len(investing) =>
                    \E j \in Positions(calls[3].items) :
                        nres.merged[k] = Labelled(calls[3].items[j], "CNBC")

\* the primary URL failed, the alternate one returned an entry with a keyword
\* in its title, and that entry is in the output
C18_Witness ==
    /\ npc = "done"
    /\ Len(calls) = 3
    /\ calls[3].outcome = "ok"
    /\ \E j \in Positions(calls[3].items), k \in Positions(nres.items) :
          nres.items[k] = Labelled(calls[3].items[j], "CNBC")

\* C19: of a call that ends well, the merged list is every Investing item as
\* fetched, under the label Investing.com, followed by those CNBC items whose
\* title has a keyword, under the label CNBC and in their order; and every
\* item of the output is one of the merged list, so that one labelled CNBC has
\* a keyword in its title.
C19_TopicFilter ==
    nres.status = "ok" =>
        LET a == calls[1].items
            b == SelectSeq(calls[Len(calls)].items,
                           LAMBDA x : HasKeyword(x.title))
        IN  /\ Len(nres.merged) = Len(a) + Len(b)
            /\ \A k \in Positions(a) :
                  nres.merged[k] = Labelled(a[k], "Investing.com")
            /\ \A k \in Positions(b) :
                  nres.merged[Len(a) + k] = Labelled(b[k], "CNBC")
            /\ \A k \in Positions(nres.items) :
                  /\ \E j \in Positions(nres.merged) :
                        nres.items[k] = nres.merged[j]
                  /\ nres.items[k].source \in {"Investing.com", "CNBC"}
                  /\ nres.items[k].source = "CNBC" =>
                        HasKeyword(nres.items[k].title)

\* the output holds an Investing item with no keyword in its title and a CNBC
\* item whose keyword is written with a capital, and CNBC returned an item
\* with no keyword that is not in the merged list
C19_Witness ==
    /\ nres.status = "ok"
    /\ \E k \in Positions(nres.items) :
          /\ nres.items[k].source = "Investing.com"
          /\ ~HasKeyword(nres.items[k].title)
    /\ \E k \in Positions(nres.items) :
          /\ nres.items[k].source = "CNBC"
          /\ ~(\E kw \in CRYPTO_KEYWORDS : Contains(nres.items[k].title, kw))
    /\ \E j \in Positions(cnbc_raw) :
          /\ ~HasKeyword(cnbc_raw[j].title)
          /\ \A k \in Positions(nres.merged) :
                nres.merged[k].source = "CNBC" =>
                    nres.merged[k].title # cnbc_raw[j].title

\* C22: of a call that ends well, every item before the cut, and so every
\* returned item, has an identity that is not empty, no two of them have the
\* same identity, a merged item with an empty identity is not among them, and
\* every identity, not empty, of a merged item is that of one of them.
C22_IdentityKeys ==
    nres.status = "ok" =>
        /\ \A k \in Positions(nres.uniq) : IdentityOf(nres.uniq[k]) # << >>
        /\ \A j, k \in Positions(nres.uniq) :
              j # k => IdentityOf(nres.uniq[j]) # IdentityOf(nres.uniq[k])
        /\ \A k \in Positions(nres.items) :
              /\ nres.items[k] = nres.uniq[k]
              /\ IdentityOf(nres.items[k]) # << >>
        /\ \A j \in Positions(nres.merged) :
              IF IdentityOf(nres.merged[j]) = << >>
              THEN \A k \in Positions(nres.uniq) :
                      nres.uniq[k] # nres.merged[j]
              ELSE \E k \in Positions(nres.uniq) :
                      IdentityOf(nres.uniq[k]) = IdentityOf(nres.merged[j])

\* the only merged item of the latest time has a blank link and a blank title,
\* and the output holds the other merged items, which are older
C22_Witness ==
    /\ nres.status = "ok"
    /\ Len(nres.merged) >= 2
    /\ Len(nres.items) = Len(nres.merged) - 1
    /\ \E j \in Positions(nres.merged) :
          /\ Strip(nres.merged[j].link) = << >>
          /\ Strip(nres.merged[j].title) = << >>
          /\ \A k \in Positions(nres.merged) :
                k # j => nres.merged[k].published_ts < nres.merged[j].published_ts

====
